---- MODULE Spec2Model ----
(***************************************************************************)
(* Result caches and feature panels of the VolView NVIDIA demo fork.       *)
(*                                                                         *)
(* SpecCache  : one result cache (nv-generate, maisi, nv-segment or        *)
(*              vista3d) driven by arbitrary set / get / remove calls.     *)
(* SpecName   : pickUniqueSegmentGroupName applied to bounded sets of      *)
(*              existing segment groups.                                   *)
(* SpecGen    : a generation panel (MAISIModule.vue or                     *)
(*              NVGenerateCTModule.vue), its controls, its remote calls    *)
(*              and the backend's pushes into the nv-generate cache.       *)
(* SpecChat   : a chat panel (the NV-Reason chat or the chat with          *)
(*              per-model logs), its turns and the backend's outputs.      *)
(* SpecSeg    : the segmentation panel (NVSegmentModule.vue), its          *)
(*              invocations, the nv-segment cache and the segment groups.  *)
(* SpecPanels : a generation panel, the NV-Reason chat or the              *)
(*              segmentation panel, mounted on its own.                    *)
(* SpecSegCall: the remote call a segmentation panel builds from the       *)
(*              current image and class selection.                         *)
(* SpecLabel  : the segments and colors the segmentation panel makes from  *)
(*              bounded label maps, one invocation after another.          *)
(* SpecSettings: the connect / disconnect buttons of ServerSettings.vue.   *)
(***************************************************************************)
EXTENDS Integers, Sequences, FiniteSets, TLC

VARIABLES
    mounted,        \* which store or component the behaviour exercises
    cacheKind,      \* which of the four stores this cache is
    ids,            \* the store's ordered id list (nvGenerateIds, maisiIds, ...)
    resultsById,    \* the store's own properties: a function id -> stored payload
    lastCall,       \* the last store call: operation, arguments, return value, pre-state
    written,        \* per id: the payload of the latest set, or that remove came later
    segmentGroups,  \* segmentGroupStore.metadataByID: the groups' metadata, in insertion order
    picked,         \* the last pickUniqueSegmentGroupName call and its result
    connState,      \* per server store (1..4): its ConnectionState
    clock,          \* Date.now()
    viewerImages,   \* what imageStore.addVTKImageData was given, in order
    primarySelection, \* the image dataStore.setPrimarySelection selected (0: none)
    consoleErrors,  \* number of console.error calls
    alerts,         \* number of alerts shown to the user
    toggled,        \* the last toggleConnection of the settings panel and the store calls it made
    genPanel,       \* which generation panel this is
    selectedResolutionXY,
    selectedResolutionZ,
    spacingXY,      \* coronalSagittalSpacing / selectedSpacingXY, in tenths of a mm
    spacingZ,       \* axialSpacing / selectedSpacingZ, in tenths of a mm
    generationLoading,
    genRuns,        \* the invocations of doGenerateWith...: position, id, outcome
    genEvent,       \* the last step of an invocation (for a call: what was sent)
    chatPanel,      \* which chat component this is
    selectedModel,  \* backendModelStore.selectedModel
    chatHistories,  \* chatHistory / chatHistories: per model, the message log
    newMessage,     \* the text field's content, a sequence of characters
    isTyping,
    currentImageID, \* useCurrentImage().currentImageID
    analysisOutput, \* backendModelStore.analysisOutput, per image id
    chatCall,       \* the pending multimodalLlmAnalysis call, if any
    chatTurns,      \* turns sent so far
    chatEvent,      \* the last step of a turn (for a send: the log before it and
                    \* what backendModelStore.setAnalysisInput was given)
    selectedModality,
    selectedClasses,
    segmentationLoading,
    segRuns,        \* the invocations of doSegmentation: position, id, modality, name,
                    \* and whether the cache entry under the id is the one the
                    \* backend pushed for this call
    segEvent,       \* the last step of an invocation (for a call: what was sent)
    nextColorIndex  \* the panel's position in CATEGORICAL_COLORS

cacheVars == <<cacheKind, ids, resultsById, lastCall, written>>
storeVars == <<cacheKind, ids, resultsById>>
nameVars == <<segmentGroups, picked>>
envVars == <<connState, clock, viewerImages, primarySelection, consoleErrors, alerts>>
genVars == <<genPanel, selectedResolutionXY, selectedResolutionZ, spacingXY, spacingZ,
             generationLoading, genRuns, genEvent>>

chatVars == <<chatPanel, selectedModel, chatHistories, newMessage, isTyping,
              currentImageID, analysisOutput, chatCall, chatTurns,
              chatEvent>>

chatOwnVars == <<chatPanel, selectedModel, chatHistories, newMessage, isTyping,
                 analysisOutput, chatCall, chatTurns, chatEvent>>
segVars == <<selectedModality, selectedClasses, segmentationLoading, segRuns, segEvent,
             nextColorIndex>>

vars == <<mounted, cacheVars, nameVars, envVars, toggled, genVars, chatVars, segVars>>

\* What the actions of each specification leave alone.
cacheFrame == <<mounted, toggled, nameVars, envVars, genVars, chatVars, segVars>>
nameFrame == <<mounted, toggled, cacheVars, envVars, genVars, chatVars, segVars>>
genFrame == <<mounted, toggled, lastCall, written, nameVars, chatVars, segVars>>
chatFrame == <<mounted, toggled, cacheVars, nameVars, genVars, segVars, clock, viewerImages,
               primarySelection, alerts>>
segFrame == <<mounted, toggled, lastCall, written, picked, genVars, chatOwnVars, clock, viewerImages,
              primarySelection, alerts>>

-----------------------------------------------------------------------------
(* JavaScript values                                                       *)

\* Number of distinct payload contents the model distinguishes.
NumPayloads == 1

PayloadData == 1..NumPayloads

Null == [kind |-> "null", data |-> 0]
Undefined == [kind |-> "undefined", data |-> 0]
\* What reading a member every plain object inherits yields (Object.prototype.constructor).
Inherited == [kind |-> "inherited", data |-> 0]

Obj(d) == [kind |-> "object", data |-> d]
Blob(d) == [kind |-> "Blob", data |-> d]
ArrayBuffer(d) == [kind |-> "ArrayBuffer", data |-> d]

\* Maybe<string> identifiers that are not strings.
NullId == "<null>"
UndefinedId == "<undefined>"

\* Identifiers: the empty string, two ordinary ids and a name that every plain
\* JavaScript object inherits from Object.prototype.
OrdinaryIds == {"img1", "img2"}
ObjectPrototypeKeys == {"constructor"}
Ids == {""} \cup OrdinaryIds \cup ObjectPrototypeKeys
MaybeIds == Ids \cup {NullId, UndefinedId}

CacheKinds == {"nv-generate", "maisi", "nv-segment", "vista3d"}

\* The payloads a caller may pass to set: `any` for three stores,
\* Blob | ArrayBuffer | Uint8Array for vista3d.
Payloads(kind) ==
    IF kind = "vista3d"
    THEN {Blob(d) : d \in PayloadData} \cup {ArrayBuffer(d) : d \in PayloadData}
    ELSE {Obj(d) : d \in PayloadData} \cup {Null, Undefined}

\* `!id`
Falsy(id) == id \in {"", NullId, UndefinedId}

\* `v ?? null`
NullishToNull(v) == IF v \in {Null, Undefined} THEN Null ELSE v

\* `id in obj` on a plain object: own or inherited.
HasKey(obj, id) == id \in DOMAIN obj \/ id \in ObjectPrototypeKeys

\* `obj[id]` on a plain object: own, else inherited, else undefined.
ReadKey(obj, id) ==
    IF id \in DOMAIN obj THEN obj[id]
    ELSE IF id \in ObjectPrototypeKeys THEN Inherited
    ELSE Undefined

\* `obj[id] = v`
WriteKey(obj, id, v) == [k \in DOMAIN obj \cup {id} |-> IF k = id THEN v ELSE obj[k]]

\* `delete obj[id]`
DeleteKey(obj, id) == [k \in DOMAIN obj \ {id} |-> obj[k]]

\* `arr.indexOf(x)`, 1-based; 0 when absent.
IndexOf(arr, x) ==
    IF \E i \in 1..Len(arr) : arr[i] = x
    THEN CHOOSE i \in 1..Len(arr) : arr[i] = x /\ \A j \in 1..(i - 1) : arr[j] # x
    ELSE 0

\* `arr.splice(i)`: without the count, everything from i on goes.
SpliceOne_ToEnd(arr, i) == SubSeq(arr, 1, i - 1)

\* `arr.splice(i, 1)`
SpliceOne(arr, i) == [j \in 1..(Len(arr) - 1) |-> IF j < i THEN arr[j] ELSE arr[j + 1]]

-----------------------------------------------------------------------------
(* The store functions                                                     *)

\* setVista3dResult stores a Blob: a Blob as is, raw binary wrapped in a new Blob.
\* The other stores keep the result as given.
ToStored(kind, result) ==
    IF kind = "vista3d" /\ result.kind # "Blob" THEN Blob(result.data) ELSE result

SetIds(kind, idList, byId, id) ==
    IF ~HasKey(byId, id) THEN Append(idList, id) ELSE idList

\* A set that keeps the first payload of an id instead of overwriting it.
SetResults_KeepFirst(kind, byId, id, result) ==
    IF id \in DOMAIN byId THEN byId ELSE WriteKey(byId, id, ToStored(kind, result))

SetResults(kind, byId, id, result) == WriteKey(byId, id, ToStored(kind, result))

\* A get without the `?? null`: an absent entry reads as undefined.
GetResult_NoNullish(byId, id) ==
    IF Falsy(id) THEN Null ELSE ReadKey(byId, id)

GetResult(byId, id) ==
    IF Falsy(id) THEN Null ELSE NullishToNull(ReadKey(byId, id))

\* A remove without the `index > -1` test: splice(-1, 1) drops the last id.
RemoveIds_NoIndexCheck(idList, byId, id) ==
    IF ~HasKey(byId, id) THEN idList
    ELSE IF IndexOf(idList, id) > 0 THEN SpliceOne(idList, IndexOf(idList, id))
    ELSE SubSeq(idList, 1, Len(idList) - 1)

RemoveIds(idList, byId, id) ==
    IF ~HasKey(byId, id) THEN idList
    ELSE IF IndexOf(idList, id) > 0 THEN SpliceOne(idList, IndexOf(idList, id))
    ELSE idList

RemoveResults(byId, id) ==
    IF ~HasKey(byId, id) THEN byId ELSE DeleteKey(byId, id)

-----------------------------------------------------------------------------
(* SpecCache: arbitrary calls on one cache                                 *)

NeverSet == [kind |-> "never-set", data |-> 0]
Removed == [kind |-> "removed", data |-> 0]
NoCall == [op |-> "none", id |-> "", arg |-> Null, ret |-> Null,
           preIds |-> <<>>, preHad |-> FALSE]

NoPick == [called |-> FALSE]

\* The state of the parts a specification does not exercise.
CacheUnused ==
    /\ cacheKind = "nv-segment"
    /\ ids = <<>>
    /\ resultsById = <<>>
    /\ lastCall = NoCall
    /\ written = [id \in Ids |-> NeverSet]

NameUnused ==
    /\ segmentGroups = <<>>
    /\ picked = NoPick

Servers == 1..4
ConnectionStates == {"Disconnected", "Pending", "Connected"}
NoEvent == [kind |-> "none", run |-> 0]
NoToggle == [called |-> FALSE]

EnvUnused ==
    /\ connState = [s \in Servers |-> "Disconnected"]
    /\ clock = 0
    /\ viewerImages = <<>>
    /\ primarySelection = 0
    /\ consoleErrors = 0
    /\ alerts = 0
    /\ toggled = NoToggle

GenUnused ==
    /\ genPanel = "MAISI"
    /\ selectedResolutionXY = 256
    /\ selectedResolutionZ = 128
    /\ spacingXY = 15
    /\ spacingZ = 15
    /\ generationLoading = FALSE
    /\ genRuns = <<>>
    /\ genEvent = NoEvent

NoChatCall == [pending |-> FALSE]

ChatUnused ==
    /\ chatPanel = "NVReason"
    /\ selectedModel = ""
    /\ chatHistories = <<>>
    /\ newMessage = <<>>
    /\ isTyping = FALSE
    /\ currentImageID = NullId
    /\ analysisOutput = <<>>
    /\ chatCall = NoChatCall
    /\ chatTurns = 0
    /\ chatEvent = NoEvent

SegUnused ==
    /\ selectedModality = "CT"
    /\ selectedClasses = <<>>
    /\ segmentationLoading = FALSE
    /\ segRuns = <<>>
    /\ segEvent = NoEvent
    /\ nextColorIndex = 0

CacheInit ==
    /\ mounted = "store"
    /\ cacheKind \in CacheKinds
    /\ ids = <<>>
    /\ resultsById = <<>>
    /\ lastCall = NoCall
    /\ written = [id \in Ids |-> NeverSet]
    /\ NameUnused /\ EnvUnused /\ GenUnused /\ ChatUnused /\ SegUnused

CacheSet(id, result) ==
    /\ ids' = SetIds(cacheKind, ids, resultsById, id)
    /\ resultsById' = SetResults(cacheKind, resultsById, id, result)
    /\ lastCall' = [op |-> "set", id |-> id, arg |-> result, ret |-> Undefined,
                    preIds |-> ids, preHad |-> id \in DOMAIN resultsById]
    /\ written' = [written EXCEPT ![id] = result]
    /\ UNCHANGED <<cacheKind, cacheFrame>>

CacheGet(id) ==
    /\ lastCall' = [op |-> "get", id |-> id, arg |-> Null,
                    ret |-> GetResult(resultsById, id),
                    preIds |-> ids, preHad |-> id \in DOMAIN resultsById]
    /\ UNCHANGED <<cacheKind, ids, resultsById, written, cacheFrame>>

CacheRemove(id) ==
    /\ ids' = RemoveIds(ids, resultsById, id)
    /\ resultsById' = RemoveResults(resultsById, id)
    /\ lastCall' = [op |-> "remove", id |-> id, arg |-> Null, ret |-> Undefined,
                    preIds |-> ids, preHad |-> id \in DOMAIN resultsById]
    /\ written' = [written EXCEPT ![id] = Removed]
    /\ UNCHANGED <<cacheKind, cacheFrame>>

CacheNext ==
    \/ \E id \in Ids : \E result \in Payloads(cacheKind) : CacheSet(id, result)
    \/ \E id \in MaybeIds : CacheGet(id)
    \/ \E id \in Ids : CacheRemove(id)

SpecCache == CacheInit /\ [][CacheNext]_vars

-----------------------------------------------------------------------------
(* Claims about the result cache (checked under SpecCache)                 *)

\* The last call was get(id) on a string id whose latest set has not been
\* followed by a remove of that id.
GetFollowsSet ==
    /\ lastCall.op = "get"
    /\ lastCall.id \in Ids
    /\ written[lastCall.id] \notin {NeverSet, Removed}

\* C1 as stated: in every cache, for all ids and payloads p, get(id) after
\* set(id, p), with no set or remove on id in between, returns p.
C1_GetAfterSetReturnsPayload ==
    GetFollowsSet => lastCall.ret = written[lastCall.id]

\* C1 amended: for every non-empty id and every payload p other than
\* undefined, get(id) after set(id, p) returns p, except that the vista3d
\* cache returns a Blob holding p when p is raw binary.
C1_GetAfterSetReturnsStoredPayload ==
    (GetFollowsSet /\ lastCall.id # "" /\ written[lastCall.id] # Undefined) =>
        IF cacheKind = "vista3d" /\ written[lastCall.id].kind = "ArrayBuffer"
        THEN lastCall.ret = Blob(written[lastCall.id].data)
        ELSE lastCall.ret = written[lastCall.id]

\* C1 witness: vista3d, set("img1", raw bytes) then get("img1") gave the Blob.
C1_Witness ==
    /\ cacheKind = "vista3d"
    /\ lastCall.op = "get" /\ lastCall.id = "img1"
    /\ written["img1"] = ArrayBuffer(1)
    /\ lastCall.ret = Blob(1)

\* C2 as stated: after any sequence of set, get and remove calls, an id is in
\* the ordered id list if and only if the mapping holds an entry for it.
C2_ListIffMapping ==
    \A id \in Ids : (IndexOf(ids, id) > 0) <=> (id \in DOMAIN resultsById)

\* C9 as stated: set(id, p) on an id that already has an entry replaces the
\* payload with p and leaves the id list unchanged, the id occurring exactly
\* once in it, at its former position.
C9_SetExistingOverwritesInPlace ==
    (lastCall.op = "set" /\ lastCall.preHad) =>
        /\ resultsById[lastCall.id] = lastCall.arg
        /\ ids = lastCall.preIds
        /\ Cardinality({i \in 1..Len(ids) : ids[i] = lastCall.id}) = 1

\* C10 as stated: for all ids, get(id) after remove(id), with no set on id in
\* between, returns null.
C10_GetAfterRemoveReturnsNull ==
    (lastCall.op = "get" /\ lastCall.id \in Ids /\ written[lastCall.id] = Removed) =>
        lastCall.ret = Null

\* C11: remove(id) on an id that has no entry set (never set, or removed
\* since its last set) changes nothing: the mapping and the ordered id list
\* are the same before and after.
C11_RemoveOfUnsetIdChangesNothing ==
    [][(lastCall'.op = "remove" /\ written[lastCall'.id] \in {NeverSet, Removed}) =>
           (ids' = ids /\ resultsById' = resultsById)]_vars

\* C11 witness: remove("constructor"), never set, was called on a cache that
\* holds entries, and the list is as it was.
C11_Witness ==
    /\ lastCall.op = "remove" /\ lastCall.id = "constructor"
    /\ ~lastCall.preHad
    /\ "constructor" \notin DOMAIN resultsById
    /\ Len(ids) = 2
    /\ ids = lastCall.preIds

\* C12 as stated: get(id) returns null for every id that has no entry set in
\* the cache, and for an empty, null or undefined id.
C12_GetOfUnsetIdReturnsNull ==
    (/\ lastCall.op = "get"
     /\ \/ Falsy(lastCall.id)
        \/ lastCall.id \notin DOMAIN resultsById) =>
        lastCall.ret = Null

\* The ids of a list other than id, in their order.
Others(idList, id) == SelectSeq(idList, LAMBDA x : x # id)

\* The own entry of id in the mapping, if any.
Entry(byId, id) == IF id \in DOMAIN byId THEN byId[id] ELSE Undefined

\* C19 as stated: set, get and remove on an id leave the payload and the list
\* position of every other id unchanged, and get changes nothing at all.
C19_OtherIdsKeepPayloadAndPosition ==
    [][/\ \A x \in Ids \ {lastCall'.id} :
              /\ Entry(resultsById', x) = Entry(resultsById, x)
              /\ x \in DOMAIN resultsById' <=> x \in DOMAIN resultsById
              /\ IndexOf(ids', x) = IndexOf(ids, x)
       /\ lastCall'.op = "get" => (ids' = ids /\ resultsById' = resultsById)]_vars

\* C19 amended: set, get and remove on an id leave the payload of every other
\* id and the order of the other ids in the list unchanged (remove shifts the
\* ids listed after the removed one up by one), and get changes nothing.
C19_OtherIdsKeepPayloadAndOrder ==
    [][/\ \A x \in Ids \ {lastCall'.id} :
              /\ Entry(resultsById', x) = Entry(resultsById, x)
              /\ x \in DOMAIN resultsById' <=> x \in DOMAIN resultsById
       /\ Others(ids', lastCall'.id) = Others(ids, lastCall'.id)
       /\ lastCall'.op = "get" => (ids' = ids /\ resultsById' = resultsById)]_vars

\* C19 witness: remove("img1") took the first of two listed ids away and the
\* second, with its payload, is still there.
C19_Witness ==
    /\ lastCall.op = "remove" /\ lastCall.id = "img1"
    /\ lastCall.preIds = <<"img1", "img2">>
    /\ ids = <<"img2">>
    /\ "img2" \in DOMAIN resultsById

-----------------------------------------------------------------------------
(* Segment group names                                                     *)

\* Largest "(k)" suffix among the names of the groups that exist beforehand.
MaxSuffix == 2
\* Number of segment groups that exist beforehand.
MaxExisting == 2

\* Source images (ids) and the names imageStore.metadata gives them; 'Image'
\* stands in when the metadata has no name.
ImageIds == OrdinaryIds

\* The images the panels' behaviours load into the viewer.
LoadedImages == {"img1"}
ImageNames == {"CT", "Image"}

\* The prefix parameter: its default and the two doSegmentation passes.
Prefixes == {"Segment Group", "NV-Segment-CT", "NV-Segment-CTMR"}

\* `${prefix} for ${baseName}`
Unsuffixed(prefix, baseName) == [prefix |-> prefix, base |-> baseName, suffix |-> 0]

\* `${prefix} for ${baseName} (${index})`
Suffixed(prefix, baseName, index) == [prefix |-> prefix, base |-> baseName, suffix |-> index]

\* The names the groups that exist beforehand are drawn from.
GroupNames ==
    {Suffixed(p, "CT", k) : p \in {"Segment Group", "NV-Segment-CT"}, k \in 0..MaxSuffix}

GroupMetadata == [name : GroupNames, parentImage : ImageIds]

\* The names of all groups, whatever their parent image (no filter).
ExistingNames_AllParents(groups, parentID) ==
    {groups[i].name : i \in 1..Len(groups)}

\* Object.values(metadataByID).filter(parentImage === parentID).map(name)
ExistingNames(groups, parentID) ==
    {groups[i].name : i \in {j \in 1..Len(groups) : groups[j].parentImage = parentID}}

\* The while loop: as long as the name is taken, index++ and retry with "(index)".
RECURSIVE PickLoop(_, _, _, _, _)
PickLoop(existingNames, prefix, baseName, index, name) ==
    IF name \in existingNames
    THEN PickLoop(existingNames, prefix, baseName, index + 1,
                  Suffixed(prefix, baseName, index + 1))
    ELSE name

\* A loop whose index starts at 0, so that the first suffix tried is "(1)".
pickUniqueSegmentGroupName_IndexFromZero(groups, baseName, parentID, prefix) ==
    PickLoop(ExistingNames(groups, parentID), prefix, baseName, 0,
             Unsuffixed(prefix, baseName))

pickUniqueSegmentGroupName(groups, baseName, parentID, prefix) ==
    PickLoop(ExistingNames(groups, parentID), prefix, baseName, 1,
             Unsuffixed(prefix, baseName))

NameInit ==
    /\ mounted = "segmentGroupStore"
    /\ segmentGroups \in UNION {[1..n -> GroupMetadata] : n \in 0..MaxExisting}
    /\ picked = NoPick
    /\ CacheUnused /\ EnvUnused /\ GenUnused /\ ChatUnused /\ SegUnused

\* A call of pickUniqueSegmentGroupName.
NamePick(baseName, parentID, prefix) ==
    /\ picked' = [called |-> TRUE, baseName |-> baseName, parentID |-> parentID,
                   prefix |-> prefix,
                   name |-> pickUniqueSegmentGroupName(segmentGroups, baseName,
                                                        parentID, prefix)]
    /\ UNCHANGED <<segmentGroups, nameFrame>>

\* The new group is added under the picked name (segmentGroupStore.addLabelmap).
NameAdd ==
    /\ picked.called
    /\ Len(segmentGroups) < MaxExisting
    /\ segmentGroups' = Append(segmentGroups,
                                [name |-> picked.name, parentImage |-> picked.parentID])
    /\ picked' = NoPick
    /\ UNCHANGED nameFrame

NameNext ==
    \/ \E b \in ImageNames, p \in ImageIds, x \in Prefixes : NamePick(b, p, x)
    \/ NameAdd

SpecName == NameInit /\ [][NameNext]_vars

\* The names of the sibling groups at the last pick.
PickedSiblings == ExistingNames(segmentGroups, picked.parentID)

\* C8 as stated: given an existing group named "Segment Group for CT (1)" for
\* a source image, a new segmentation on that image gets the name
\* "Segment Group for CT (2)".
C8_AfterOneComesTwo ==
    (/\ picked.called
     /\ picked.prefix = "Segment Group" /\ picked.baseName = "CT"
     /\ PickedSiblings = {Suffixed("Segment Group", "CT", 1)}) =>
        picked.name = Suffixed("Segment Group", "CT", 2)

\* C8 amended: the pick is "<prefix> for <base> (2)" when the unsuffixed
\* "<prefix> for <base>" is taken by a sibling and "(2)" is not; it is the
\* unsuffixed name whenever no sibling has it, also next to a sibling "(1)".
C8_AfterUnsuffixedComesTwo ==
    picked.called =>
        /\ (/\ Unsuffixed(picked.prefix, picked.baseName) \in PickedSiblings
            /\ Suffixed(picked.prefix, picked.baseName, 2) \notin PickedSiblings) =>
               picked.name = Suffixed(picked.prefix, picked.baseName, 2)
        /\ Unsuffixed(picked.prefix, picked.baseName) \notin PickedSiblings =>
               picked.name = Unsuffixed(picked.prefix, picked.baseName)

\* C8 witness: a second CT segmentation of an image named CT, whose first
\* group has the unsuffixed name while another image's group has "(2)".
C8_Witness ==
    /\ picked.called
    /\ picked.prefix = "NV-Segment-CT" /\ picked.baseName = "CT"
    /\ Unsuffixed("NV-Segment-CT", "CT") \in PickedSiblings
    /\ \E i \in 1..Len(segmentGroups) :
          /\ segmentGroups[i].parentImage # picked.parentID
          /\ segmentGroups[i].name = Suffixed("NV-Segment-CT", "CT", 2)
    /\ picked.name = Suffixed("NV-Segment-CT", "CT", 2)

\* The names carried by the groups whose parent image is the one of the last pick.
NamesOfSameParent ==
    {segmentGroups[i].name :
        i \in {j \in 1..Len(segmentGroups) : segmentGroups[j].parentImage = picked.parentID}}

\* C22: pickUniqueSegmentGroupName returns a name carried by no existing group
\* of the same parent image: the unsuffixed "<prefix> for <base>" when it is
\* free, otherwise "<prefix> for <base> (k)" for the smallest k >= 2 that is
\* free; groups of other parent images do not influence the result.
C22_PickedNameIsFirstFreeAmongSiblings ==
    picked.called =>
        /\ picked.name \notin NamesOfSameParent
        /\ IF Unsuffixed(picked.prefix, picked.baseName) \notin NamesOfSameParent
           THEN picked.name = Unsuffixed(picked.prefix, picked.baseName)
           ELSE \E k \in 2..(MaxExisting + 2) :
                   /\ picked.name = Suffixed(picked.prefix, picked.baseName, k)
                   /\ \A j \in 2..(k - 1) :
                          Suffixed(picked.prefix, picked.baseName, j) \in NamesOfSameParent

\* C22 witness: the siblings carry the unsuffixed name and "(2)", the pick is "(3)".
C22_Witness ==
    /\ picked.called
    /\ picked.prefix = "NV-Segment-CT" /\ picked.baseName = "CT"
    /\ NamesOfSameParent = {Unsuffixed("NV-Segment-CT", "CT"), Suffixed("NV-Segment-CT", "CT", 2)}
    /\ picked.name = Suffixed("NV-Segment-CT", "CT", 3)

-----------------------------------------------------------------------------
(* Generation panels: MAISIModule.vue and NVGenerateCTModule.vue           *)

\* Invocations of a panel's action within one behaviour.
MaxRuns == 2

\* The values Date.now() takes within one behaviour.
ClockValues == {0, 1}

GenPanels == {"MAISI", "NVGenerateCT"}

ResolutionXYOptions(panel) ==
    IF panel = "MAISI" THEN {256, 512} ELSE {256, 384, 512}

\* The spacings (1.0 and 1.5 mm, in tenths) the model lets the user choose:
\* stops of the MAISI sliders and options of the NV-Generate-CT selects.
SpacingChoices == {10, 15}

\* The value the MAISI panel locks the spacings to: 1 mm.
LockedSpacing == 10

\* areSpacingsLocked (MAISI); the NV-Generate-CT panel has no such rule.
areSpacingsLocked(panel, resolutionXY) == panel = "MAISI" /\ resolutionXY = 512

\* A watcher that leaves the spacing alone.
WatchResolutionXY_NoLock(panel, newVal, spacing) == spacing

\* watch(selectedResolutionXY): the spacing after the resolution became newVal.
WatchResolutionXY(panel, newVal, spacing) ==
    IF panel = "MAISI" /\ newVal = 512 THEN LockedSpacing ELSE spacing

\* `maisi-gen-${Date.now()}` / `nv-generate-ct-${Date.now()}`
GenerationId(panel, now) ==
    (IF panel = "MAISI" THEN "maisi-gen-" ELSE "nv-generate-ct-") \o ToString(now)

\* A readiness test that also accepts a connection that is being set up.
Ready_NotDisconnected(server) == connState[server] # "Disconnected"

\* ready
Ready(server) == connState[server] = "Connected"

GenInit ==
    /\ mounted = "generation"
    /\ genPanel \in GenPanels
    /\ selectedResolutionXY = (IF genPanel = "MAISI" THEN 256 ELSE 512)
    /\ selectedResolutionZ = (IF genPanel = "MAISI" THEN 128 ELSE 512)
    /\ spacingXY = WatchResolutionXY(genPanel, selectedResolutionXY,
                                     IF genPanel = "MAISI" THEN 15 ELSE 10)
    /\ spacingZ = WatchResolutionXY(genPanel, selectedResolutionXY,
                                    IF genPanel = "MAISI" THEN 15 ELSE 10)
    /\ generationLoading = FALSE
    /\ genRuns = <<>>
    /\ genEvent = NoEvent
    /\ EnvUnused
    /\ cacheKind = "nv-generate"
    /\ ids = <<>>
    /\ resultsById = <<>>
    /\ lastCall = NoCall
    /\ written = [id \in Ids |-> NeverSet]
    /\ NameUnused
    /\ ChatUnused
    /\ SegUnused

\* The X/Y resolution select, with the watcher it triggers.
GenSelectResolutionXY(v) ==
    /\ ~generationLoading
    /\ v # selectedResolutionXY
    /\ selectedResolutionXY' = v
    /\ spacingXY' = WatchResolutionXY(genPanel, v, spacingXY)
    /\ spacingZ' = WatchResolutionXY(genPanel, v, spacingZ)
    /\ UNCHANGED <<genPanel, selectedResolutionZ, generationLoading, genRuns, genEvent,
                   storeVars, envVars, genFrame>>

\* The spacing sliders (MAISI) or selects (NV-Generate-CT).
GenSetSpacingXY(v) ==
    /\ ~(areSpacingsLocked(genPanel, selectedResolutionXY) \/ generationLoading)
    /\ v # spacingXY
    /\ spacingXY' = v
    /\ UNCHANGED <<genPanel, selectedResolutionXY, selectedResolutionZ, spacingZ,
                   generationLoading, genRuns, genEvent, storeVars, envVars, genFrame>>

GenSetSpacingZ(v) ==
    /\ ~(areSpacingsLocked(genPanel, selectedResolutionXY) \/ generationLoading)
    /\ v # spacingZ
    /\ spacingZ' = v
    /\ UNCHANGED <<genPanel, selectedResolutionXY, selectedResolutionZ, spacingXY,
                   generationLoading, genRuns, genEvent, storeVars, envVars, genFrame>>

\* The connection state of a server changes (owned by the server store).
ConnChange(server, state) ==
    /\ connState[server] # state
    /\ connState' = [connState EXCEPT ![server] = state]
    /\ UNCHANGED <<clock, viewerImages, primarySelection, consoleErrors, alerts>>

\* Time passes.
ClockTick ==
    /\ clock + 1 \in ClockValues
    /\ clock' = clock + 1
    /\ UNCHANGED <<connState, viewerImages, primarySelection, consoleErrors, alerts>>

GenConnChange(state) ==
    ConnChange(3, state) /\ UNCHANGED <<storeVars, genVars, genFrame>>

GenClockTick ==
    ClockTick /\ UNCHANGED <<storeVars, genVars, genFrame>>

\* The Generate button runs doGenerateWithMAISI / doGenerateWithNVGenerateCT up
\* to its await. The button is disabled by `!ready` only (selectedPart is never
\* empty); its loading binding does not disable it and the handler has no
\* guard of its own.
GenTrigger ==
    /\ Ready(3)
    /\ Len(genRuns) < MaxRuns
    /\ generationLoading' = TRUE
    /\ genRuns' = Append(genRuns,
          [pc |-> "awaitCall", id |-> GenerationId(genPanel, clock),
           outcome |-> "pending"])
    /\ genEvent' = [kind |-> "issued", run |-> Len(genRuns) + 1,
                    method |-> "generateWithMAISI",
                    id |-> GenerationId(genPanel, clock),
                    output_size |-> <<selectedResolutionXY, selectedResolutionXY,
                                      selectedResolutionZ>>,
                    spacing |-> <<spacingXY, spacingXY, spacingZ>>]
    /\ UNCHANGED <<genPanel, selectedResolutionXY, selectedResolutionZ, spacingXY,
                   spacingZ, storeVars, envVars, genFrame>>

\* The backend pushes the result of a pending call into the cache
\* (nvGenerateStore.setNVGenerateResult over the RPC channel).
GenBackendPush(r) ==
    /\ genRuns[r].pc = "awaitCall"
    /\ ids' = SetIds(cacheKind, ids, resultsById, genRuns[r].id)
    /\ resultsById' = SetResults(cacheKind, resultsById, genRuns[r].id, Obj(r))
    /\ resultsById' # resultsById
    /\ UNCHANGED <<cacheKind, genVars, envVars, genFrame>>

\* client.call resolved: the rest of the handler. `throws` is whether the
\* conversion of the cached object (vtk(...)) throws.
GenCallResolves(r, throws) ==
    /\ genRuns[r].pc = "awaitCall"
    /\ LET generatedImageObject == GetResult(resultsById, genRuns[r].id)
       IN  IF generatedImageObject = Null
           THEN /\ consoleErrors' = consoleErrors + 1
                /\ genRuns' = [genRuns EXCEPT ![r].pc = "done", ![r].outcome = "missing"]
                /\ UNCHANGED <<viewerImages, primarySelection, ids, resultsById>>
           ELSE IF throws
           THEN /\ consoleErrors' = consoleErrors + 1
                /\ genRuns' = [genRuns EXCEPT ![r].pc = "done", ![r].outcome = "threw"]
                /\ UNCHANGED <<viewerImages, primarySelection, ids, resultsById>>
           ELSE /\ viewerImages' = Append(viewerImages, generatedImageObject)
                /\ primarySelection' = Len(viewerImages) + 1
                /\ ids' = RemoveIds(ids, resultsById, genRuns[r].id)
                /\ resultsById' = RemoveResults(resultsById, genRuns[r].id)
                /\ genRuns' = [genRuns EXCEPT ![r].pc = "done", ![r].outcome = "success"]
                /\ UNCHANGED consoleErrors
    /\ generationLoading' = FALSE
    /\ genEvent' = [kind |-> "resolved", run |-> r]
    /\ UNCHANGED <<cacheKind, genPanel, selectedResolutionXY, selectedResolutionZ,
                   spacingXY, spacingZ, connState, clock, alerts, genFrame>>

\* client.call rejected: catch and finally.
GenCallRejects(r) ==
    /\ genRuns[r].pc = "awaitCall"
    /\ consoleErrors' = consoleErrors + 1
    /\ genRuns' = [genRuns EXCEPT ![r].pc = "done", ![r].outcome = "rejected"]
    /\ generationLoading' = FALSE
    /\ genEvent' = [kind |-> "rejected", run |-> r]
    /\ UNCHANGED <<storeVars, genPanel, selectedResolutionXY, selectedResolutionZ,
                   spacingXY, spacingZ, connState, clock, viewerImages,
                   primarySelection, alerts, genFrame>>

GenNext ==
    \/ \E v \in ResolutionXYOptions(genPanel) : GenSelectResolutionXY(v)
    \/ \E v \in SpacingChoices : GenSetSpacingXY(v)
    \/ \E v \in SpacingChoices : GenSetSpacingZ(v)
    \/ \E st \in ConnectionStates : GenConnChange(st)
    \/ GenClockTick
    \/ GenTrigger
    \/ \E r \in 1..Len(genRuns) : GenBackendPush(r)
    \/ \E r \in 1..Len(genRuns) : \E throws \in BOOLEAN : GenCallResolves(r, throws)
    \/ \E r \in 1..Len(genRuns) : GenCallRejects(r)

SpecGen == GenInit /\ [][GenNext]_vars

\* The last step issued a generation call with X/Y resolution 512.
IssuedAt512 == genEvent.kind = "issued" /\ genEvent.output_size[1] = 512

LockedSpacings == <<LockedSpacing, LockedSpacing, LockedSpacing>>

\* C6, as stated: whenever a generation call is issued with X/Y resolution 512,
\* the spacing sent is [1, 1, 1] mm, in every generation panel.
C6_SpacingLockedAt512 == IssuedAt512 => genEvent.spacing = LockedSpacings

\* C6, amended: whenever the MAISI panel issues a generation call with X/Y
\* resolution 512, the spacing sent is [1, 1, 1] mm, whatever the sliders
\* showed before the resolution was selected.
C6_MAISISpacingLockedAt512 ==
    (genPanel = "MAISI" /\ IssuedAt512) => genEvent.spacing = LockedSpacings

\* The MAISI panel, whose sliders start at 1.5 mm, has issued a call at 512.
C6_Witness ==
    /\ genPanel = "MAISI"
    /\ IssuedAt512
    /\ genEvent.spacing = LockedSpacings
    /\ genEvent.output_size = <<512, 512, 128>>

\* The invocations whose remote call rejected.
RejectedRuns == {r \in 1..Len(genRuns) : genRuns[r].outcome = "rejected"}

\* C4: when the remote call of an invocation rejects, the loading indicator is
\* false again and exactly one alert was raised for that rejection.
C4_RejectionClearsLoadingAndAlertsOnce ==
    genEvent.kind = "rejected" =>
        /\ ~generationLoading
        /\ alerts = Cardinality(RejectedRuns)

\* C25: whenever no generation invocation is in flight, the cache holds no
\* entry for the identifier of any finished invocation, however it ended.
C25_IdleCacheHoldsNoFinishedResult ==
    (\A r \in 1..Len(genRuns) : genRuns[r].pc = "done") =>
        \A r \in 1..Len(genRuns) :
            /\ ~HasKey(resultsById, genRuns[r].id)
            /\ IndexOf(ids, genRuns[r].id) = 0

-----------------------------------------------------------------------------
(* Chat panels: the NV-Reason chat (single log, server 2) and the chat     *)
(* with per-model logs (server 2)                                          *)

\* Turns sent within one behaviour.
MaxTurns == 2

ChatPanels == {"NVReason", "ModelChat"}
ChatModels == {"Clara NV-Reason-CXR-3B", "MedGemma"}

\* Texts are sequences of characters. What the user may type:
TypedInputs == {<<" ">>, <<" ", "a", " ">>}
SUGGESTED_PROMPTS == {<<"Provide differentials">>}
SorryText == <<"Sorry, an error occurred. Please try again.">>

\* What the backend may store as the analysis output of an image.
BotTexts == {<<"r">>}
StringValue(text) == [kind |-> "string", data |-> 0, text |-> text]
AnalysisOutputs == {StringValue(t) : t \in BotTexts} \cup {Obj(0)}

\* String.prototype.trim()
RECURSIVE TrimStart(_)
TrimStart(text) ==
    IF text # <<>> /\ Head(text) = " " THEN TrimStart(Tail(text)) ELSE text

RECURSIVE TrimEnd(_)
TrimEnd(text) ==
    IF text # <<>> /\ text[Len(text)] = " "
    THEN TrimEnd(SubSeq(text, 1, Len(text) - 1))
    ELSE text

Trim(text) == TrimEnd(TrimStart(text))

\* chatHistory (NV-Reason) / currentMessages (per-model chat)
currentMessages(histories, model) ==
    IF model \in DOMAIN histories THEN histories[model] ELSE <<>>

\* An append that puts the new message first (unshift instead of push).
appendMessage_Unshift(histories, model, text, sender) ==
    WriteKey(histories, model,
             <<[text |-> text, sender |-> sender]>> \o currentMessages(histories, model))

\* appendMessage; the message id (Date.now()) is only the rendering key
appendMessage(histories, model, text, sender) ==
    WriteKey(histories, model,
             Append(currentMessages(histories, model), [text |-> text, sender |-> sender]))

\* The history sent to the backend: sender 'user' | 'bot' becomes role
\* 'user' | 'assistant'.
MapHistory(messages) ==
    [i \in 1..Len(messages) |->
        [role |-> IF messages[i].sender = "user" THEN "user" ELSE "assistant",
         content |-> messages[i].text]]

isInputDisabled == isTyping \/ ~Ready(2) \/ currentImageID = NullId

ChatInit ==
    /\ mounted = "chat"
    /\ chatPanel \in ChatPanels
    /\ selectedModel = "Clara NV-Reason-CXR-3B"
    /\ chatHistories = <<>>
    /\ newMessage = <<>>
    /\ isTyping = FALSE
    /\ currentImageID = NullId
    /\ analysisOutput = <<>>
    /\ chatCall = NoChatCall
    /\ chatTurns = 0
    /\ chatEvent = NoEvent
    /\ EnvUnused
    /\ CacheUnused /\ NameUnused /\ GenUnused /\ SegUnused

\* The user edits the text field.
ChatType(text) ==
    /\ ~isInputDisabled
    /\ text # newMessage
    /\ newMessage' = text
    /\ UNCHANGED <<chatPanel, selectedModel, chatHistories, isTyping, currentImageID,
                   analysisOutput, chatCall, chatTurns, chatEvent,
                   connState, consoleErrors, chatFrame>>

ChatUseSuggestedPrompt(prompt) ==
    /\ prompt # newMessage
    /\ newMessage' = prompt
    /\ UNCHANGED <<chatPanel, selectedModel, chatHistories, isTyping, currentImageID,
                   analysisOutput, chatCall, chatTurns, chatEvent,
                   connState, consoleErrors, chatFrame>>

\* The selected model of the backend model store changes (per-model chat only;
\* the NV-Reason chat fixes it when mounted).
ChatSelectModel(model) ==
    /\ chatPanel = "ModelChat"
    /\ model # selectedModel
    /\ selectedModel' = model
    /\ UNCHANGED <<chatPanel, chatHistories, newMessage, isTyping, currentImageID,
                   analysisOutput, chatCall, chatTurns, chatEvent,
                   connState, consoleErrors, chatFrame>>

\* The viewer's current image changes.
ChatSelectImage(image) ==
    /\ image # currentImageID
    /\ currentImageID' = image
    /\ UNCHANGED <<chatPanel, selectedModel, chatHistories, newMessage, isTyping,
                   analysisOutput, chatCall, chatTurns, chatEvent,
                   connState, consoleErrors, chatFrame>>

ChatConnChange(state) ==
    /\ connState[2] # state
    /\ connState' = [connState EXCEPT ![2] = state]
    /\ UNCHANGED <<chatVars, consoleErrors, chatFrame>>

resetAllChats ==
    /\ chatHistories # <<>>
    /\ chatHistories' = <<>>
    /\ UNCHANGED <<chatPanel, selectedModel, newMessage, isTyping, currentImageID,
                   analysisOutput, chatCall, chatTurns, chatEvent,
                   connState, consoleErrors, chatFrame>>

\* sendMessage up to its await. The NV-Reason chat maps the history before it
\* appends the user's message, the per-model chat after.
sendMessage ==
    /\ ~isInputDisabled
    /\ Trim(newMessage) # <<>>
    /\ chatTurns < MaxTurns
    /\ LET text == Trim(newMessage)
           before == currentMessages(chatHistories, selectedModel)
           appended == appendMessage(chatHistories, selectedModel, text, "user")
           history == IF chatPanel = "NVReason"
                      THEN MapHistory(before)
                      ELSE MapHistory(currentMessages(appended, selectedModel))
       IN  /\ chatHistories' = appended
           /\ chatEvent' = [kind |-> "sent", run |-> chatTurns + 1,
                            typed |-> newMessage, logBefore |-> before,
                            analysisInput |->
                                [imageId |-> currentImageID,
                                 payload |-> [prompt |-> text, history |-> history]]]
    /\ newMessage' = <<>>
    /\ isTyping' = TRUE
    /\ chatCall' = [pending |-> TRUE, method |-> "multimodalLlmAnalysis",
                    imageId |-> currentImageID]
    /\ chatTurns' = chatTurns + 1
    /\ UNCHANGED <<chatPanel, selectedModel, currentImageID, analysisOutput,
                   connState, consoleErrors, chatFrame>>

\* The backend stores the analysis output of the pending call's image.
ChatBackendPush(output) ==
    /\ chatCall.pending
    /\ analysisOutput' = WriteKey(analysisOutput, chatCall.imageId, output)
    /\ analysisOutput' # analysisOutput
    /\ UNCHANGED <<chatPanel, selectedModel, chatHistories, newMessage, isTyping,
                   currentImageID, chatCall, chatTurns, chatEvent,
                   connState, consoleErrors, chatFrame>>

\* client.call resolved: the response is read under the image that is current
\* now; anything but a string throws into the catch block.
ChatCallResolves ==
    /\ chatCall.pending
    /\ LET botResponse == IF currentImageID \in DOMAIN analysisOutput
                          THEN analysisOutput[currentImageID]
                          ELSE Undefined
       IN  IF botResponse.kind = "string"
           THEN /\ chatHistories' = appendMessage(chatHistories, selectedModel,
                                                  botResponse.text, "bot")
                /\ chatEvent' = [kind |-> "replied", run |-> chatTurns,
                                 imageId |-> chatCall.imageId,
                                 reply |-> botResponse.text]
                /\ UNCHANGED consoleErrors
           ELSE /\ chatHistories' = appendMessage(chatHistories, selectedModel,
                                                  SorryText, "bot")
                /\ chatEvent' = [kind |-> "invalid", run |-> chatTurns,
                                 imageId |-> chatCall.imageId,
                                 reply |-> SorryText]
                /\ consoleErrors' = consoleErrors + 1
    /\ isTyping' = FALSE
    /\ chatCall' = NoChatCall
    /\ UNCHANGED <<chatPanel, selectedModel, newMessage, currentImageID,
                   analysisOutput, chatTurns, connState, chatFrame>>

\* client.call rejected: catch and finally.
ChatCallRejects ==
    /\ chatCall.pending
    /\ consoleErrors' = consoleErrors + 1
    /\ chatHistories' = appendMessage(chatHistories, selectedModel, SorryText, "bot")
    /\ chatEvent' = [kind |-> "rejected", run |-> chatTurns]
    /\ isTyping' = FALSE
    /\ chatCall' = NoChatCall
    /\ UNCHANGED <<chatPanel, selectedModel, newMessage, currentImageID,
                   analysisOutput, chatTurns, connState, chatFrame>>

ChatNext ==
    \/ \E text \in TypedInputs : ChatType(text)
    \/ \E prompt \in SUGGESTED_PROMPTS : ChatUseSuggestedPrompt(prompt)
    \/ \E model \in ChatModels : ChatSelectModel(model)
    \/ \E image \in LoadedImages \cup {NullId} : ChatSelectImage(image)
    \/ \E st \in ConnectionStates : ChatConnChange(st)
    \/ resetAllChats
    \/ sendMessage
    \/ \E output \in AnalysisOutputs : ChatBackendPush(output)
    \/ ChatCallResolves
    \/ ChatCallRejects

SpecChat == ChatInit /\ [][ChatNext]_vars

\* C7: for every chat turn, the history sent to the backend holds exactly the
\* log entries that existed before the turn, without the message just typed,
\* and the prompt is that message.
C7_HistoryExcludesTypedMessage ==
    chatEvent.kind = "sent" =>
        /\ chatEvent.analysisInput.payload.history = MapHistory(chatEvent.logBefore)
        /\ chatEvent.analysisInput.payload.prompt = Trim(chatEvent.typed)

\* In this step the log of the model is left as it is or gets one entry at its end.
AppendOnlyStep(model) ==
    LET old == currentMessages(chatHistories, model)
        new == currentMessages(chatHistories', model)
    IN  \/ new = old
        \/ Len(new) = Len(old) + 1 /\ SubSeq(new, 1, Len(old)) = old

\* This step is Clear Chat: the logs are emptied and nothing else changes.
ClearChatStep ==
    /\ chatHistories' = <<>>
    /\ UNCHANGED <<selectedModel, newMessage, isTyping, currentImageID, analysisOutput,
                   chatCall, chatTurns, chatEvent, connState, consoleErrors>>

\* C17 as stated: the message log of each model is ordered and append-only:
\* every step of the chat panel leaves a model's log unchanged or appends one
\* entry at its end, also while a call is in flight.
C17_LogsAreAppendOnly ==
    [][\A model \in ChatModels : AppendOnlyStep(model)]_vars

\* C17 amended: every step of the chat panel other than Clear Chat leaves a
\* model's log unchanged or appends one entry at its end; Clear Chat, which is
\* available also while a call is in flight, empties the logs.
C17_LogsAreAppendOnlyUntilCleared ==
    [][ClearChatStep \/ \A model \in ChatModels : AppendOnlyStep(model)]_vars

\* C17 witness: the log was cleared while the first call was in flight, so the
\* log now starts with the reply.
C17_Witness ==
    /\ chatEvent.kind = "replied"
    /\ chatTurns = 1
    /\ Len(currentMessages(chatHistories, selectedModel)) = 1
    /\ currentMessages(chatHistories, selectedModel)[1].sender = "bot"

\* C26: the reply appended when a turn's call resolves is the analysis output
\* stored under the image id that was passed to the call.
C26_ReplyIsTheOutputOfTheCallsImage ==
    (/\ chatEvent.kind \in {"replied", "invalid"}
     /\ chatEvent.imageId \in DOMAIN analysisOutput
     /\ analysisOutput[chatEvent.imageId].kind = "string")
        => chatEvent.reply = analysisOutput[chatEvent.imageId].text

-----------------------------------------------------------------------------
(* Segmentation panel: NVSegmentModule.vue (CT on server 1, MRI on 4)      *)

SegmentationModalities == {"CT", "MRI"}

\* The class selections the model lets the user make.
ClassSelections == {<<>>, <<1>>}

\* A panel whose calls all go to the CT server.
ServerOf_AlwaysCT(modality) == 1

\* currentServerStore
ServerOf(modality) == IF modality = "CT" THEN 1 ELSE 4

\* imageStore.metadata[id]?.name ?? 'Image'
ParentName(id) == IF id = "img1" THEN "CT" ELSE "Image"

\* modelPrefix
ModelPrefix(modality) == IF modality = "CT" THEN "NV-Segment-CT" ELSE "NV-Segment-CTMR"

hasCurrentImage == currentImageID # NullId

\* The components with a Run Segmentation button: NVSegmentModule.vue, the
\* NV-Segment-CT panel and Vista3DModule.vue.
SegmentationPanels == {"NVSegmentModule", "NVSegmentCTModule", "Vista3DModule"}

\* labelPrompt
labelPrompt(classes) == IF Len(classes) > 0 THEN classes ELSE <<>>

\* rpcCall: the remote method a panel calls.
rpcCall(panel, modality) ==
    IF panel = "Vista3DModule" THEN "segmentWithVista3D"
    ELSE IF panel = "NVSegmentCTModule" \/ modality = "CT" THEN "segmentWithNVSegmentCT"
    ELSE "segmentWithNVSegmentMRI"

\* An argument list that leaves the label prompt out when no class is selected.
rpcArgs_OmitEmptyPrompt(panel, modality, baseImageId, classes) ==
    IF panel = "Vista3DModule" \/ classes = <<>> THEN <<baseImageId>>
    ELSE IF panel = "NVSegmentCTModule" \/ modality = "CT"
    THEN <<baseImageId, labelPrompt(classes)>>
    ELSE <<baseImageId, labelPrompt(classes), "MRI_BODY">>

\* rpcArgs: the argument list of the remote call.
rpcArgs(panel, modality, baseImageId, classes) ==
    IF panel = "Vista3DModule" THEN <<baseImageId>>
    ELSE IF panel = "NVSegmentCTModule" \/ modality = "CT"
    THEN <<baseImageId, labelPrompt(classes)>>
    ELSE <<baseImageId, labelPrompt(classes), "MRI_BODY">>

\* Number of colors in CATEGORICAL_COLORS.
PaletteLength == 3

\* Largest number of voxels of a label map the model labels.
MaxVoxels == 2

\* The scalar arrays a segmentation result may carry: a Uint8Array, or another
\* typed array (here an Int16Array) whose values need not fit a byte.
ArrayTypes == {"Uint8Array", "Int16Array"}

ScalarValues(arrayType) ==
    IF arrayType = "Uint8Array" THEN {0, 1, 200} ELSE {-1, 0, 2, 300}

ScalarArrays(arrayType) ==
    UNION {[1..n -> ScalarValues(arrayType)] : n \in 1..MaxVoxels}

\* The images ensureSameSpace may hand to toLabelMap.
LabelmapImages ==
    UNION {[arrayType : {t}, values : ScalarArrays(t)] : t \in ArrayTypes}

\* The content of the label maps the backend pushes: the handler looks at a
\* payload's content only through the image made from it.
SegPayloadData == {1}

\* The image a cached payload becomes after vtk(...) and ensureSameSpace: a
\* label map whose only label is the payload's number.
ImageOf(labelmap) ==
    [arrayType |-> "Int16Array", values |-> <<0, labelmap.data, labelmap.data>>]

\* convertToUint8
convertToUint8(array) ==
    [i \in 1..Len(array) |-> IF array[i] < 0 \/ array[i] > 255 THEN 0 ELSE array[i]]

\* getLabelMapScalars: the scalar data of the vtkLabelMap toLabelMap builds.
getLabelMapScalars(image) ==
    IF image.arrayType = "Uint8Array" THEN image.values ELSE convertToUint8(image.values)

\* `new Set(scalarData)`, `delete(0)`, `Array.from`: the distinct nonzero values
\* in order of first occurrence.
RECURSIVE uniqueValues(_)
uniqueValues(scalarData) ==
    IF scalarData = <<>> THEN <<>>
    ELSE LET front == uniqueValues(SubSeq(scalarData, 1, Len(scalarData) - 1))
             last == scalarData[Len(scalarData)]
         IN  IF last = 0 \/ \E i \in 1..Len(front) : front[i] = last
             THEN front
             ELSE Append(front, last)

\* The entries of the two class tables for the values the model uses.
CT_SEGMENT_CLASSES == (1 :> "liver") @@ (2 :> "kidney")
MRI_SEGMENT_CLASSES == (1 :> "liver") @@ (2 :> "spleen")

\* currentClasses
currentClasses(modality) ==
    IF modality = "CT" THEN CT_SEGMENT_CLASSES ELSE MRI_SEGMENT_CLASSES

\* A name taken from a class table.
TableName(text) == [text |-> text, value |-> 0]

\* makeDefaultSegmentName: `Segment ${value}`
makeDefaultSegmentName(value) == [text |-> "Segment", value |-> value]

\* `currentClasses.value[value] || makeDefaultSegmentName(value)`
SegmentName(modality, value) ==
    IF value \in DOMAIN currentClasses(modality)
    THEN TableName(currentClasses(modality)[value])
    ELSE makeDefaultSegmentName(value)

\* A color source that never wraps around.
getNextColor_NoWrap(index) == [color |-> index, next |-> index + 1]

\* getNextColor: the palette entry at the index, and the index after it.
getNextColor(index) == [color |-> index, next |-> (index + 1) % PaletteLength]

\* `Array.from(uniqueValues).map(...)`: one segment per value, each taking the
\* next color.
RECURSIVE makeSegments(_, _, _)
makeSegments(values, modality, index) ==
    IF values = <<>> THEN [segments |-> <<>>, next |-> index]
    ELSE LET taken == getNextColor(index)
             rest == makeSegments(Tail(values), modality, taken.next)
         IN  [segments |-> <<[value |-> Head(values),
                              name |-> SegmentName(modality, Head(values)),
                              color |-> taken.color]>> \o rest.segments,
              next |-> rest.next]

\* Steps 3 and 4 of doSegmentation on the image ensureSameSpace returned.
Labelled(image, modality, index) ==
    makeSegments(uniqueValues(getLabelMapScalars(image)), modality, index)

SegInit ==
    /\ mounted = "segmentation"
    /\ selectedModality = "CT"
    /\ selectedClasses = <<>>
    /\ segmentationLoading = FALSE
    /\ segRuns = <<>>
    /\ segEvent = NoEvent
    /\ nextColorIndex = 0
    /\ cacheKind = "nv-segment"
    /\ ids = <<>>
    /\ resultsById = <<>>
    /\ lastCall = NoCall
    /\ written = [id \in Ids |-> NeverSet]
    /\ NameUnused
    /\ EnvUnused
    /\ GenUnused
    /\ ChatUnused

\* The modality radio group, with the watcher that clears the class selection.
SegSelectModality(modality) ==
    /\ ~segmentationLoading
    /\ modality # selectedModality
    /\ selectedModality' = modality
    /\ selectedClasses' = <<>>
    /\ UNCHANGED <<segmentationLoading, segRuns, segEvent, nextColorIndex, storeVars, segmentGroups,
                   currentImageID, connState, consoleErrors, segFrame>>

\* The class select.
SegSelectClasses(classes) ==
    /\ ~(segmentationLoading \/ ~hasCurrentImage)
    /\ classes # selectedClasses
    /\ selectedClasses' = classes
    /\ UNCHANGED <<selectedModality, segmentationLoading, segRuns, segEvent, nextColorIndex, storeVars,
                   segmentGroups, currentImageID, connState, consoleErrors, segFrame>>

\* The viewer's current image changes.
SegSelectImage(image) ==
    /\ image # currentImageID
    /\ currentImageID' = image
    /\ UNCHANGED <<segVars, storeVars, segmentGroups, connState, consoleErrors, segFrame>>

SegConnChange(server, state) ==
    /\ connState[server] # state
    /\ connState' = [connState EXCEPT ![server] = state]
    /\ UNCHANGED <<segVars, storeVars, segmentGroups, currentImageID, consoleErrors,
                   segFrame>>

\* The Run Segmentation button runs doSegmentation up to its first await. The
\* button is disabled by `!ready || !hasCurrentImage`; its loading binding
\* does not disable it and the handler does not test the loading flag.
\* An invocation that has returned; how it ended is in segEvent.
Finished(id) == [pc |-> "done", id |-> id]

SegTrigger ==
    /\ Ready(ServerOf(selectedModality))
    /\ hasCurrentImage
    /\ Len(segRuns) < MaxRuns
    /\ segmentationLoading' = TRUE
    /\ segRuns' = Append(segRuns,
          [pc |-> "awaitCall", id |-> currentImageID, modality |-> selectedModality,
           own |-> FALSE])
    /\ segEvent' = [kind |-> "issued", run |-> Len(segRuns) + 1,
                    server |-> ServerOf(selectedModality),
                    method |-> rpcCall("NVSegmentModule", selectedModality),
                    args |-> rpcArgs("NVSegmentModule", selectedModality,
                                     currentImageID, selectedClasses)]
    /\ UNCHANGED <<selectedModality, selectedClasses, nextColorIndex, storeVars, segmentGroups,
                   currentImageID, connState, consoleErrors, segFrame>>

\* The backend pushes the label map of a pending call into the cache
\* (nvSegmentStore.setNVSegmentResult over the RPC channel).
SegBackendPush(r, d) ==
    /\ segRuns[r].pc = "awaitCall"
    /\ ids' = SetIds(cacheKind, ids, resultsById, segRuns[r].id)
    /\ resultsById' = SetResults(cacheKind, resultsById, segRuns[r].id, Obj(d))
    /\ segRuns' = [q \in 1..Len(segRuns) |->
                      IF q = r THEN [segRuns[q] EXCEPT !.own = TRUE]
                      ELSE IF segRuns[q].pc = "awaitCall" /\ segRuns[q].id = segRuns[r].id
                      THEN [segRuns[q] EXCEPT !.own = FALSE]
                      ELSE segRuns[q]]
    /\ resultsById' # resultsById \/ segRuns' # segRuns
    /\ UNCHANGED <<cacheKind, selectedModality, selectedClasses, segmentationLoading,
                   segEvent, nextColorIndex, segmentGroups, currentImageID, connState,
                   consoleErrors, segFrame>>

\* client.call resolved: the handler up to `await ensureSameSpace`. `throws` is
\* whether vtk(...) throws or the parent image is gone from the image cache.
SegCallResolves(r, throws) ==
    /\ segRuns[r].pc = "awaitCall"
    /\ LET labelmapObject == GetResult(resultsById, segRuns[r].id)
       IN  IF labelmapObject = Null
           THEN /\ consoleErrors' = consoleErrors + 1
                /\ segRuns' = [segRuns EXCEPT ![r] = Finished(segRuns[r].id)]
                /\ segmentationLoading' = FALSE
                /\ segEvent' = [kind |-> "missing", run |-> r]
           ELSE IF throws
           THEN /\ consoleErrors' = consoleErrors + 1
                /\ segRuns' = [segRuns EXCEPT ![r] = Finished(segRuns[r].id)]
                /\ segmentationLoading' = FALSE
                /\ segEvent' = [kind |-> "threw", run |-> r]
           ELSE /\ segRuns' = [segRuns EXCEPT ![r] =
                      [pc |-> "awaitSameSpace", id |-> segRuns[r].id,
                       modality |-> segRuns[r].modality,
                       labelmap |-> labelmapObject,
                       name |-> pickUniqueSegmentGroupName(
                                    segmentGroups, ParentName(segRuns[r].id),
                                    segRuns[r].id, ModelPrefix(selectedModality))]]
                /\ segEvent' = [kind |-> "retrieved", run |-> r,
                                own |-> segRuns[r].own]
                /\ UNCHANGED <<consoleErrors, segmentationLoading>>
    /\ UNCHANGED <<selectedModality, selectedClasses, nextColorIndex, storeVars, segmentGroups,
                   currentImageID, connState, segFrame>>

\* client.call rejected: catch and finally.
SegCallRejects(r) ==
    /\ segRuns[r].pc = "awaitCall"
    /\ consoleErrors' = consoleErrors + 1
    /\ segRuns' = [segRuns EXCEPT ![r] = Finished(segRuns[r].id)]
    /\ segmentationLoading' = FALSE
    /\ segEvent' = [kind |-> "rejected", run |-> r]
    /\ UNCHANGED <<selectedModality, selectedClasses, nextColorIndex, storeVars, segmentGroups,
                   currentImageID, connState, segFrame>>

\* ensureSameSpace resolved: the label map is converted and the segment group
\* is added under the name picked before the await.
SegSameSpaceResolves(r) ==
    /\ segRuns[r].pc = "awaitSameSpace"
    /\ LET made == Labelled(ImageOf(segRuns[r].labelmap), selectedModality, nextColorIndex)
       IN  /\ nextColorIndex' = made.next
           /\ segEvent' = [kind |-> "added", run |-> r, id |-> segRuns[r].id,
                           labelmap |-> segRuns[r].labelmap,
                           modality |-> segRuns[r].modality,
                           name |-> segRuns[r].name,
                           table |-> selectedModality,
                           segments |-> made.segments]
    /\ segmentGroups' = Append(segmentGroups,
                                [name |-> segRuns[r].name, parentImage |-> segRuns[r].id])
    /\ segRuns' = [segRuns EXCEPT ![r] = Finished(segRuns[r].id)]
    /\ segmentationLoading' = FALSE
    /\ UNCHANGED <<selectedModality, selectedClasses, storeVars, currentImageID,
                   connState, consoleErrors, segFrame>>

\* A rejection of ensureSameSpace that is caught without a finally block.
SegSameSpaceRejects_NoFinally(r) ==
    /\ segRuns[r].pc = "awaitSameSpace"
    /\ consoleErrors' = consoleErrors + 1
    /\ segRuns' = [segRuns EXCEPT ![r] = Finished(segRuns[r].id)]
    /\ segEvent' = [kind |-> "threw", run |-> r]
    /\ UNCHANGED <<selectedModality, selectedClasses, nextColorIndex, segmentationLoading, storeVars,
                   segmentGroups, currentImageID, connState, segFrame>>

\* ensureSameSpace rejected: catch and finally.
SegSameSpaceRejects(r) ==
    /\ segRuns[r].pc = "awaitSameSpace"
    /\ consoleErrors' = consoleErrors + 1
    /\ segRuns' = [segRuns EXCEPT ![r] = Finished(segRuns[r].id)]
    /\ segmentationLoading' = FALSE
    /\ segEvent' = [kind |-> "threw", run |-> r]
    /\ UNCHANGED <<selectedModality, selectedClasses, nextColorIndex, storeVars, segmentGroups,
                   currentImageID, connState, segFrame>>

SegNext ==
    \/ \E modality \in SegmentationModalities : SegSelectModality(modality)
    \/ \E classes \in ClassSelections : SegSelectClasses(classes)
    \/ \E image \in LoadedImages \cup {NullId} : SegSelectImage(image)
    \/ \E server \in {1, 4} : \E st \in ConnectionStates : SegConnChange(server, st)
    \/ SegTrigger
    \/ \E r \in 1..Len(segRuns) : \E d \in SegPayloadData : SegBackendPush(r, d)
    \/ \E r \in 1..Len(segRuns) : \E throws \in BOOLEAN : SegCallResolves(r, throws)
    \/ \E r \in 1..Len(segRuns) : SegCallRejects(r)
    \/ \E r \in 1..Len(segRuns) : SegSameSpaceResolves(r)
    \/ \E r \in 1..Len(segRuns) : SegSameSpaceRejects(r)

SpecSeg == SegInit /\ [][SegNext]_vars

\* C3: once an invocation has retrieved its payload and handed it to the
\* viewer, the result cache holds no entry for the invocation's identifier.
C3_ConsumedEntryIsRemoved ==
    segEvent.kind = "added" =>
        /\ ~HasKey(resultsById, segEvent.id)
        /\ IndexOf(ids, segEvent.id) = 0

\* The remote calls of the panel that have not settled.
SegCallsInFlight == {r \in 1..Len(segRuns) : segRuns[r].pc = "awaitCall"}

\* C5: at most one remote call of the panel is in flight at any time.
C5_AtMostOneCallInFlight == Cardinality(SegCallsInFlight) <= 1

\* C28: an invocation starts only while the server of the modality selected
\* at that moment (CT: server 1, MRI: server 4) is Connected, and its call
\* goes to that server: segmentWithNVSegmentCT with [image id, label list]
\* for CT, segmentWithNVSegmentMRI with [image id, label list, 'MRI_BODY']
\* for MRI.
C28_CallGoesToTheModalitysServer ==
    [][Len(segRuns') > Len(segRuns) =>
          /\ segEvent'.kind = "issued"
          /\ IF selectedModality = "CT"
             THEN /\ connState[1] = "Connected"
                  /\ segEvent'.server = 1
                  /\ segEvent'.method = "segmentWithNVSegmentCT"
                  /\ segEvent'.args = <<currentImageID, selectedClasses>>
             ELSE /\ connState[4] = "Connected"
                  /\ segEvent'.server = 4
                  /\ segEvent'.method = "segmentWithNVSegmentMRI"
                  /\ segEvent'.args = <<currentImageID, selectedClasses, "MRI_BODY">>]_vars

\* C28 witness: an MRI call issued on server 4 while server 1 is not connected.
C28_Witness ==
    /\ segEvent.kind = "issued"
    /\ segEvent.server = 4
    /\ segEvent.method = "segmentWithNVSegmentMRI"
    /\ Len(segEvent.args) = 3
    /\ connState[1] # "Connected"

\* C27: the class-name table and the group-name prefix applied to a result
\* are those of the modality its call was issued with.
C27_LabelledWithTheIssuedModality ==
    segEvent.kind = "added" =>
        /\ segEvent.table = segEvent.modality
        /\ segEvent.name.prefix = ModelPrefix(segEvent.modality)

\* C23: no two segment groups of the same parent image share a name.
C23_SiblingNamesAreDistinct ==
    \A i, j \in 1..Len(segmentGroups) :
        (i # j /\ segmentGroups[i].parentImage = segmentGroups[j].parentImage)
            => segmentGroups[i].name # segmentGroups[j].name

\* C24: the payload an invocation consumes after its call resolved is the
\* one the backend pushed for that invocation.
C24_ConsumedPayloadWasPushedForTheCall ==
    segEvent.kind = "retrieved" => segEvent.own

-----------------------------------------------------------------------------
(* SpecPanels: one mounted panel: a generation panel, the NV-Reason chat   *)
(* or the segmentation panel                                               *)

PanelsInit == GenInit \/ (ChatInit /\ chatPanel = "NVReason") \/ SegInit

PanelsNext ==
    \/ mounted = "generation" /\ \E v \in ResolutionXYOptions(genPanel) : GenSelectResolutionXY(v)
    \/ mounted = "generation" /\ \E v \in SpacingChoices : GenSetSpacingXY(v)
    \/ mounted = "generation" /\ \E v \in SpacingChoices : GenSetSpacingZ(v)
    \/ mounted = "generation" /\ \E st \in ConnectionStates : GenConnChange(st)
    \/ mounted = "generation" /\ GenClockTick
    \/ mounted = "generation" /\ GenTrigger
    \/ mounted = "generation" /\ \E r \in 1..Len(genRuns) : GenBackendPush(r)
    \/ mounted = "generation" /\ \E r \in 1..Len(genRuns) : \E throws \in BOOLEAN :
                                     GenCallResolves(r, throws)
    \/ mounted = "generation" /\ \E r \in 1..Len(genRuns) : GenCallRejects(r)
    \/ mounted = "chat" /\ \E text \in TypedInputs : ChatType(text)
    \/ mounted = "chat" /\ \E prompt \in SUGGESTED_PROMPTS : ChatUseSuggestedPrompt(prompt)
    \/ mounted = "chat" /\ \E image \in LoadedImages \cup {NullId} : ChatSelectImage(image)
    \/ mounted = "chat" /\ \E st \in ConnectionStates : ChatConnChange(st)
    \/ mounted = "chat" /\ resetAllChats
    \/ mounted = "chat" /\ sendMessage
    \/ mounted = "chat" /\ \E output \in AnalysisOutputs : ChatBackendPush(output)
    \/ mounted = "chat" /\ ChatCallResolves
    \/ mounted = "chat" /\ ChatCallRejects
    \/ mounted = "segmentation" /\ \E modality \in SegmentationModalities :
                                       SegSelectModality(modality)
    \/ mounted = "segmentation" /\ \E classes \in ClassSelections : SegSelectClasses(classes)
    \/ mounted = "segmentation" /\ \E image \in LoadedImages \cup {NullId} :
                                       SegSelectImage(image)
    \/ mounted = "segmentation" /\ \E server \in {1, 4} : \E st \in ConnectionStates :
                                       SegConnChange(server, st)
    \/ mounted = "segmentation" /\ SegTrigger
    \/ mounted = "segmentation" /\ \E r \in 1..Len(segRuns) : \E d \in SegPayloadData :
                                       SegBackendPush(r, d)
    \/ mounted = "segmentation" /\ \E r \in 1..Len(segRuns) : \E throws \in BOOLEAN :
                                       SegCallResolves(r, throws)
    \/ mounted = "segmentation" /\ \E r \in 1..Len(segRuns) : SegCallRejects(r)
    \/ mounted = "segmentation" /\ \E r \in 1..Len(segRuns) : SegSameSpaceResolves(r)
    \/ mounted = "segmentation" /\ \E r \in 1..Len(segRuns) : SegSameSpaceRejects(r)

SpecPanels == PanelsInit /\ [][PanelsNext]_vars

\* This step is the resolution of the remote call of invocation r.
GenCallResolved(r) ==
    /\ genRuns[r].pc = "awaitCall"
    /\ genRuns'[r].pc = "done"
    /\ genEvent'.kind = "resolved"

SegCallResolved(r) ==
    /\ segRuns[r].pc = "awaitCall"
    /\ segRuns'[r].pc # "awaitCall"
    /\ segEvent'.kind # "rejected"

\* This step hands nothing to the viewer, leaves the cache alone and ends
\* with the loading flags cleared.
AbortedStep ==
    /\ viewerImages' = viewerImages
    /\ primarySelection' = primarySelection
    /\ segmentGroups' = segmentGroups
    /\ ids' = ids
    /\ resultsById' = resultsById
    /\ ~generationLoading'
    /\ ~segmentationLoading'

\* C13: when the remote call of an invocation resolves while the result cache
\* has no entry for the invocation's identifier, nothing is handed to the
\* viewer (no image, no segment group), no cache entry is created or removed,
\* and the loading flag is cleared.
C13_MissingResultAborts ==
    [][/\ \A r \in 1..Len(genRuns) :
              (GenCallResolved(r) /\ genRuns[r].id \notin DOMAIN resultsById) => AbortedStep
       /\ \A r \in 1..Len(segRuns) :
              (SegCallResolved(r) /\ segRuns[r].id \notin DOMAIN resultsById) => AbortedStep
      ]_vars

\* C13 witness: a segmentation call has resolved with nothing in the cache;
\* no group was added, the error was logged and the flag is cleared.
C13_Witness ==
    /\ mounted = "segmentation"
    /\ segEvent.kind = "missing"
    /\ resultsById = <<>>
    /\ segmentGroups = <<>>
    /\ ~segmentationLoading
    /\ consoleErrors = 1

\* This step starts an invocation of the panel's action (a remote call is issued).
GenStarts == Len(genRuns') > Len(genRuns)
SegStarts == Len(segRuns') > Len(segRuns)
ChatStarts == chatTurns' > chatTurns

\* C14: an invocation is started, a remote call issued and the loading flag
\* set only when the panel's server is Connected and, for the segmentation and
\* chat panels, an image is loaded; otherwise triggering changes nothing and
\* logs or alerts nothing.
C14_NoCallUnlessConnectedAndImageLoaded ==
    [][/\ (GenStarts \/ (generationLoading' /\ ~generationLoading)) =>
              connState[3] = "Connected"
       /\ (SegStarts \/ (segmentationLoading' /\ ~segmentationLoading)) =>
              /\ connState[ServerOf(selectedModality)] = "Connected"
              /\ currentImageID \in LoadedImages
       /\ (ChatStarts \/ (chatCall'.pending /\ ~chatCall.pending) \/ (isTyping' /\ ~isTyping)) =>
              /\ connState[2] = "Connected"
              /\ currentImageID \in LoadedImages
       /\ (GenStarts \/ SegStarts \/ ChatStarts) =>
              (consoleErrors' = consoleErrors /\ alerts' = alerts)
      ]_vars

\* C14 witness: the chat's server is being connected, an image is loaded and a
\* message is typed; the first turn was answered and no second one was sent.
C14_Witness ==
    /\ mounted = "chat"
    /\ connState[2] = "Pending"
    /\ currentImageID \in LoadedImages
    /\ Trim(newMessage) # <<>>
    /\ ~isTyping
    /\ chatTurns = 1
    /\ ~chatCall.pending

\* Invocation r of the panel has set the loading flag and has not returned.
GenRunning(r) == r <= Len(genRuns) /\ genRuns[r].pc # "done"
SegRunning(r) == r <= Len(segRuns) /\ segRuns[r].pc # "done"

\* C15: the step in which an invocation returns, its call and its awaited
\* post-processing having settled, leaves the panel's loading flag false,
\* after success, after a remote failure and after a missing result alike;
\* a panel all of whose invocations have returned is idle.
C15_ReturnClearsLoading ==
    [][/\ \A r \in 1..MaxRuns :
              (GenRunning(r) /\ ~GenRunning(r)') => ~generationLoading'
       /\ \A r \in 1..MaxRuns :
              (SegRunning(r) /\ ~SegRunning(r)') => ~segmentationLoading'
       /\ (chatCall.pending /\ ~chatCall'.pending) => ~isTyping'
       /\ (\A r \in 1..MaxRuns : ~GenRunning(r)') => ~generationLoading'
       /\ (\A r \in 1..MaxRuns : ~SegRunning(r)') => ~segmentationLoading'
       /\ ~chatCall'.pending => ~isTyping'
      ]_vars

\* C15 witness: two segmentation invocations have returned, the last one
\* after its label map was added, and the flag is false.
C15_Witness ==
    /\ mounted = "segmentation"
    /\ Len(segRuns) = 2
    /\ \A r \in 1..Len(segRuns) : segRuns[r].pc = "done"
    /\ segEvent.kind = "added"
    /\ ~segmentationLoading

\* C16: any two invocations that are live at the same time use distinct cache
\* identifiers, for the timestamp-based generation ids and for segmentation
\* keyed by image id.
C16_LiveRequestsUseDistinctIds ==
    /\ \A r1, r2 \in 1..MaxRuns :
          (r1 # r2 /\ GenRunning(r1) /\ GenRunning(r2)) => genRuns[r1].id # genRuns[r2].id
    /\ \A r1, r2 \in 1..MaxRuns :
          (r1 # r2 /\ SegRunning(r1) /\ SegRunning(r2)) => segRuns[r1].id # segRuns[r2].id

\* The remote calls of the generation panel that have not settled.
GenCallsInFlight == {r \in 1..Len(genRuns) : genRuns[r].pc = "awaitCall"}

\* C18: while the remote call of an invocation has not settled, the panel's
\* loading flag is true: nothing but the settlement of that call clears it.
C18_UnsettledCallKeepsLoading ==
    /\ GenCallsInFlight # {} => generationLoading
    /\ SegCallsInFlight # {} => segmentationLoading

-----------------------------------------------------------------------------
(* SpecSegCall: the remote call a segmentation panel issues, for bounded   *)
(* sets of class selections                                                *)

\* Longest class selection.
MaxClasses == 2

\* Values of the class select (keys of the segment class tables).
ClassValues == 1..4

\* What the multi-select can hold: lists of distinct class values.
ClassLists ==
    {classes \in UNION {[1..n -> ClassValues] : n \in 0..MaxClasses} :
        \A i, j \in DOMAIN classes : i # j => classes[i] # classes[j]}

SegCallInit ==
    /\ mounted \in SegmentationPanels
    /\ selectedModality \in (IF mounted = "NVSegmentModule"
                             THEN SegmentationModalities ELSE {"CT"})
    /\ selectedClasses \in (IF mounted = "Vista3DModule" THEN {<<>>} ELSE ClassLists)
    /\ currentImageID \in ImageIds
    /\ segmentationLoading = FALSE
    /\ segRuns = <<>>
    /\ segEvent = NoEvent
    /\ nextColorIndex = 0
    /\ chatPanel = "NVReason"
    /\ selectedModel = ""
    /\ chatHistories = <<>>
    /\ newMessage = <<>>
    /\ isTyping = FALSE
    /\ analysisOutput = <<>>
    /\ chatCall = NoChatCall
    /\ chatTurns = 0
    /\ chatEvent = NoEvent
    /\ CacheUnused /\ NameUnused /\ EnvUnused /\ GenUnused

\* The panel's handler builds its call from the current image and selection.
SegCallIssue ==
    /\ segEvent = NoEvent
    /\ segEvent' = [kind |-> "issued", run |-> 1,
                    method |-> rpcCall(mounted, selectedModality),
                    args |-> rpcArgs(mounted, selectedModality, currentImageID,
                                     selectedClasses)]
    /\ UNCHANGED <<selectedModality, selectedClasses, segmentationLoading, segRuns, nextColorIndex,
                   storeVars, segmentGroups, currentImageID, connState, consoleErrors,
                   segFrame>>

SegCallNext == SegCallIssue

SpecSegCall == SegCallInit /\ [][SegCallNext]_vars

\* C20 as stated: with an empty class selection the segmentation call is
\* issued with an argument list whose second element is an empty list, with a
\* non-empty selection the second element is exactly the selected class
\* values; the label argument is never omitted.
C20_LabelArgumentIsTheSelection ==
    segEvent.kind = "issued" =>
        /\ Len(segEvent.args) >= 2
        /\ segEvent.args[2] = selectedClasses

\* C20 amended: NVSegmentModule and the NV-Segment-CT panel pass the selected
\* class values, an empty list when none is selected, as the second argument
\* and never omit it; the Vista3D panel has no class selection and passes the
\* image id alone.
C20_LabelArgumentUnlessVista3D ==
    segEvent.kind = "issued" =>
        IF mounted = "Vista3DModule"
        THEN segEvent.args = <<currentImageID>>
        ELSE /\ Len(segEvent.args) >= 2
             /\ segEvent.args[2] = selectedClasses

\* C20 witness: NVSegmentModule issued the MRI call with no class selected.
C20_Witness ==
    /\ mounted = "NVSegmentModule"
    /\ selectedClasses = <<>>
    /\ segEvent.kind = "issued"
    /\ segEvent.method = "segmentWithNVSegmentMRI"
    /\ Len(segEvent.args) = 3
    /\ segEvent.args[2] = <<>>

-----------------------------------------------------------------------------
(* SpecSettings: the server settings panel (ServerSettings.vue)            *)

\* The servers the panel lists: server-1, server-2 and server-3.
SettingsServers == 1..3

\* A toggle whose else branch connects without testing for Disconnected.
toggleConnection_ElseConnect(state, server) ==
    IF state = "Connected" THEN <<[method |-> "disconnect", server |-> server]>>
    ELSE <<[method |-> "connect", server |-> server]>>

\* toggleConnection: the store calls it makes, given the server's connState.
toggleConnection(state, server) ==
    IF state = "Connected" THEN <<[method |-> "disconnect", server |-> server]>>
    ELSE IF state = "Disconnected" THEN <<[method |-> "connect", server |-> server]>>
    ELSE <<>>

\* What a store call does to the connection states: connect starts a
\* connection attempt, disconnect closes the connection.
AfterStoreCall(states, call) ==
    [states EXCEPT ![call.server] =
        IF call.method = "connect" THEN "Pending" ELSE "Disconnected"]

RECURSIVE AfterStoreCalls(_, _)
AfterStoreCalls(states, calls) ==
    IF calls = <<>> THEN states
    ELSE AfterStoreCalls(AfterStoreCall(states, Head(calls)), Tail(calls))

settingsFrame == <<mounted, cacheVars, nameVars, genVars, chatVars, segVars, clock,
                   viewerImages, primarySelection, consoleErrors, alerts>>

SettingsInit ==
    /\ mounted = "ServerSettings"
    /\ EnvUnused
    /\ CacheUnused /\ NameUnused /\ GenUnused /\ ChatUnused /\ SegUnused

\* The Connect / Disconnect button of a server.
SettingsToggle(server) ==
    /\ toggled' = [called |-> TRUE, server |-> server, before |-> connState,
                   calls |-> toggleConnection(connState[server], server)]
    /\ connState' = AfterStoreCalls(connState, toggled'.calls)
    /\ UNCHANGED settingsFrame

\* A connection attempt ends: the server is connected or the attempt failed.
SettingsConnectSettles(server, connected) ==
    /\ connState[server] = "Pending"
    /\ connState' = [connState EXCEPT ![server] =
                        IF connected THEN "Connected" ELSE "Disconnected"]
    /\ UNCHANGED <<toggled, settingsFrame>>

SettingsNext ==
    \/ \E server \in SettingsServers : SettingsToggle(server)
    \/ \E server \in SettingsServers : \E connected \in BOOLEAN :
          SettingsConnectSettles(server, connected)

SpecSettings == SettingsInit /\ [][SettingsNext]_vars

\* C30: toggling a server calls disconnect when that server's state is
\* Connected, connect when it is Disconnected and nothing when it is Pending;
\* it never calls connect or disconnect on either of the other two servers.
C30_ToggleActsOnItsServerOnly ==
    toggled.called =>
        /\ toggled.before[toggled.server] = "Connected" =>
               (Len(toggled.calls) = 1 /\ toggled.calls[1].method = "disconnect")
        /\ toggled.before[toggled.server] = "Disconnected" =>
               (Len(toggled.calls) = 1 /\ toggled.calls[1].method = "connect")
        /\ toggled.before[toggled.server] = "Pending" => toggled.calls = <<>>
        /\ \A i \in 1..Len(toggled.calls) : toggled.calls[i].server = toggled.server

\* C30 witness: server 2 was toggled while its connection attempt was pending
\* and server 1 was connected: no store call was made.
C30_Witness ==
    /\ toggled.called
    /\ toggled.server = 2
    /\ toggled.before[2] = "Pending"
    /\ toggled.before[1] = "Connected"
    /\ toggled.calls = <<>>
    /\ connState[1] = "Connected" /\ connState[2] = "Pending"

-----------------------------------------------------------------------------
(* SpecLabel: steps 3 and 4 of doSegmentation (NVSegmentModule.vue) applied *)
(* to bounded label maps, one invocation after another                     *)

LabelInit ==
    /\ mounted = "labelling"
    /\ SegUnused
    /\ CacheUnused
    /\ NameUnused
    /\ EnvUnused
    /\ GenUnused
    /\ ChatUnused

\* An invocation reaches step 3 with `image` as the resampled result.
SegLabel(image) ==
    /\ LET made == Labelled(image, selectedModality, nextColorIndex)
       IN  /\ nextColorIndex' = made.next
           /\ segEvent' = [kind |-> "labelled", run |-> 0, image |-> image,
                           table |-> selectedModality, colorIndex |-> nextColorIndex,
                           segments |-> made.segments]
    /\ UNCHANGED <<selectedModality, selectedClasses, segmentationLoading, segRuns,
                   storeVars, segmentGroups, currentImageID, connState, consoleErrors,
                   segFrame>>

LabelNext ==
    \/ \E modality \in SegmentationModalities : SegSelectModality(modality)
    \/ \E image \in LabelmapImages : SegLabel(image)

SpecLabel == LabelInit /\ [][LabelNext]_vars

\* The distinct nonzero voxel values of a result.
NonzeroValues(image) == {image.values[i] : i \in 1..Len(image.values)} \ {0}

\* C21: the segments made from a result are exactly one per distinct nonzero
\* voxel value of the result, none for 0, each named by the selected
\* modality's table or 'Segment <value>' when the table has no name.
C21_OneSegmentPerNonzeroValue ==
    segEvent.kind = "labelled" =>
        /\ Len(segEvent.segments) = Cardinality(NonzeroValues(segEvent.image))
        /\ {segEvent.segments[i].value : i \in 1..Len(segEvent.segments)}
               = NonzeroValues(segEvent.image)
        /\ \A i \in 1..Len(segEvent.segments) :
              LET value == segEvent.segments[i].value
              IN  segEvent.segments[i].name =
                      IF value \in DOMAIN currentClasses(segEvent.table)
                      THEN TableName(currentClasses(segEvent.table)[value])
                      ELSE makeDefaultSegmentName(value)

\* C29: the color index starts at 0, stays in [0, PaletteLength), and each
\* invocation gives its i-th segment the palette entry i - 1 places (modulo
\* the palette length) after the index the previous invocations left, and
\* leaves the index one place further per segment.
C29_ColorsAreRoundRobin ==
    /\ nextColorIndex \in 0..(PaletteLength - 1)
    /\ segEvent.kind = "none" => nextColorIndex = 0
    /\ segEvent.kind = "labelled" =>
          /\ \A i \in 1..Len(segEvent.segments) :
                segEvent.segments[i].color = (segEvent.colorIndex + i - 1) % PaletteLength
          /\ nextColorIndex = (segEvent.colorIndex + Len(segEvent.segments)) % PaletteLength

\* C29 witness: an invocation that starts at the last palette entry, left
\* there by earlier invocations, and makes two segments: the second one takes
\* entry 0.
C29_Witness ==
    /\ segEvent.kind = "labelled"
    /\ segEvent.colorIndex = PaletteLength - 1
    /\ Len(segEvent.segments) = 2
    /\ segEvent.segments[1].color = PaletteLength - 1
    /\ segEvent.segments[2].color = 0
    /\ nextColorIndex = 1

====
